---- MODULE Spec2Model ----
(***************************************************************************)
(* The expense tracker's record store (src/Expense_Tracker.py): an         *)
(* in-memory list of expense records mirrored to a JSON file.              *)
(*                                                                         *)
(* Encoding of Python values                                               *)
(*   str            a sequence of one-character strings                    *)
(*   Optional[T]    <<>> for None, <<v>> for a value v                     *)
(*   datetime       [day, tod]: a calendar day and the time of day,        *)
(*                  tod = 0 being midnight                                 *)
(*   "%Y-%m-%d"     the calendar day number: the zero-padded text orders   *)
(*                  as the day number does                                 *)
(*   float          an integer (amounts are whole numbers here)            *)
(***************************************************************************)
EXTENDS Integers, Sequences, FiniteSets, TLC

(* ---- bounds ---- *)
MaxId == 2
MaxEntries == 2

Instances == {1, 2}
Amounts == {0, 1}
Days == {1, 2}
ToDs == {0, 1}
DateTimes == [day : Days, tod : ToDs]

(* ---- strings ---- *)
LowerChar(ch) ==
    IF ch = "F" THEN "f" ELSE IF ch = "N" THEN "n" ELSE ch

lower(s) == [k \in 1..Len(s) |-> LowerChar(s[k])]

RECURSIVE lstrip(_)
lstrip(s) ==
    IF s # <<>> /\ Head(s) = " " THEN lstrip(Tail(s)) ELSE s

RECURSIVE rstrip(_)
rstrip(s) ==
    IF s # <<>> /\ s[Len(s)] = " " THEN rstrip(SubSeq(s, 1, Len(s) - 1)) ELSE s

strip(s) == rstrip(lstrip(s))

(* str(int) and int(str) for the non-negative integers: decimal digits *)
DigitChars == <<"0", "1", "2", "3", "4", "5", "6", "7", "8", "9">>

IsDigit(ch) == \E d \in 1..10 : DigitChars[d] = ch

DigitVal(ch) == (CHOOSE d \in 1..10 : DigitChars[d] = ch) - 1

RECURSIVE str(_)
str(n) ==
    IF n < 10 THEN <<DigitChars[n + 1]>>
    ELSE Append(str(n \div 10), DigitChars[(n % 10) + 1])

RECURSIVE int(_)
int(s) ==
    IF Len(s) = 1 THEN DigitVal(s[1])
    ELSE 10 * int(SubSeq(s, 1, Len(s) - 1)) + DigitVal(s[Len(s)])

(* ---- dates ---- *)
strftime(dt) == dt.day

strptime(text) == [day |-> text, tod |-> 0]

dt_lt(a, b) == a.day < b.day \/ (a.day = b.day /\ a.tod < b.tod)

(* The text handed to parse_date, by the shape parse_date tells apart:     *)
(* kind is "empty", "today", "ymd", "dmy", "dmy_slash", "iso" or "junk",   *)
(* day and tod the date and time it spells.                                *)
parse_date_ok(text) == text.kind # "junk"

parse_date(text, now) ==
    IF text.kind \in {"empty", "today"} THEN now
    ELSE IF text.kind \in {"ymd", "dmy", "dmy_slash"}
         THEN [day |-> text.day, tod |-> 0]
         ELSE [day |-> text.day, tod |-> text.tod]

(* ---- the store ---- *)
VARIABLES
    expenses,   \* expenses[i]: self.expenses of tracker instance i
    file,       \* the backing file self.path
    last,       \* last[i]: the most recent call on instance i and its result
    args,       \* the arguments of the most recent call, where they are logged
    issued,     \* history: the ids add_expense has assigned so far
    pc          \* pc[i]: "new" before the constructor ran, "ready" after it

vars == <<expenses, file, last, args, issued, pc>>

(* The backing file: whether it exists and the JSON array it holds. *)
NoFile == [exists |-> FALSE, data |-> <<>>]

_load(f) == IF f.exists THEN f.data ELSE <<>>

(* records of the old file kept beside the collection *)
_save_merging(f, exps) ==
    [exists |-> TRUE,
     data |-> exps \o SelectSeq(f.data, LAMBDA e : \A k \in 1..Len(exps) : exps[k].id # e.id)]

(* open(path, "w") and json.dump: the file becomes the whole collection *)
_save(f, exps) == [exists |-> TRUE, data |-> exps]

Max(S) == CHOOSE m \in S : \A x \in S : x <= m

(* the id taken from the number of records *)
_next_id_by_count(exps) == Len(exps) + 1

_next_id(exps) ==
    IF exps = <<>> THEN 1
    ELSE Max({int(exps[k].id) : k \in 1..Len(exps)}) + 1

NewExpense(exps, amount, category, date, note) ==
    [id |-> str(_next_id(exps)),
     amount |-> amount,
     category |-> strip(category),
     date |-> strftime(date),
     note |-> strip(note)]

(* ids compared as integers *)
find_by_id_as_int(exps, id_str) ==
    LET hits == {k \in 1..Len(exps) : int(exps[k].id) = int(id_str)}
    IN IF hits = {} THEN 0 ELSE CHOOSE k \in hits : \A j \in hits : k <= j

find_by_id(exps, id_str) ==
    LET hits == {k \in 1..Len(exps) : exps[k].id = id_str}
    IN IF hits = {} THEN 0 ELSE CHOOSE k \in hits : \A j \in hits : k <= j

RemoveAt(s, k) == SubSeq(s, 1, k - 1) \o SubSeq(s, k + 1, Len(s))

(* list.remove(e): drops the first element equal to e *)
remove(exps, e) ==
    RemoveAt(exps, CHOOSE k \in 1..Len(exps) :
                      exps[k] = e /\ \A j \in 1..(k - 1) : exps[j] # e)

(* The record of a call: its name, the id it addressed and what it        *)
(* returned (ok: the boolean result, raised: the exception, out: the       *)
(* records, sum: the total).                                               *)
NoCall ==
    [name |-> "none", id |-> <<>>, ok |-> TRUE, raised |-> "", out |-> <<>>,
     sum |-> 0]

NoSrc == [exists |-> FALSE, entries |-> <<>>]

NoArgs ==
    [amount |-> <<>>, category |-> <<>>, date |-> <<>>, note |-> <<>>,
     start |-> <<>>, end |-> <<>>, limit |-> <<>>, src |-> NoSrc]

Returned(i, c) == last' = [last EXCEPT ![i] = c]

(* ---- mutating operations ---- *)
add_expense(i, amount, category, date, note) ==
    LET expense == NewExpense(expenses[i], amount, category, date, note)
    IN /\ _next_id(expenses[i]) <= MaxId
       /\ expenses' = [expenses EXCEPT ![i] = Append(@, expense)]
       /\ file' = _save(file, expenses'[i])
       /\ issued' = issued \cup {int(expense.id)}
       /\ Returned(i, [NoCall EXCEPT !.name = "add", !.out = <<expense>>])

(* the removal is not saved *)
delete_expense_unsaved(i, id_str) ==
    LET k == find_by_id(expenses[i], id_str)
        call == [NoCall EXCEPT !.name = "delete", !.id = id_str]
    IN IF k = 0
       THEN /\ Returned(i, [call EXCEPT !.ok = FALSE])
            /\ UNCHANGED <<expenses, file, issued>>
       ELSE /\ expenses' = [expenses EXCEPT ![i] = remove(@, @[k])]
            /\ Returned(i, call)
            /\ UNCHANGED <<file, issued>>

delete_expense(i, id_str) ==
    LET k == find_by_id(expenses[i], id_str)
        call == [NoCall EXCEPT !.name = "delete", !.id = id_str]
    IN IF k = 0
       THEN /\ Returned(i, [call EXCEPT !.ok = FALSE])
            /\ UNCHANGED <<expenses, file, issued>>
       ELSE /\ expenses' = [expenses EXCEPT ![i] = remove(@, @[k])]
            /\ file' = _save(file, expenses'[i])
            /\ Returned(i, call)
            /\ UNCHANGED issued

(* "if amount:" for "if amount is not None:", and so for each field *)
edit_expense_if_truthy(i, id_str, amount, category, date, note) ==
    LET k == find_by_id(expenses[i], id_str)
        call == [NoCall EXCEPT !.name = "edit", !.id = id_str]
    IN IF k = 0
       THEN /\ Returned(i, [call EXCEPT !.ok = FALSE])
            /\ UNCHANGED <<expenses, file, issued>>
       ELSE LET e0 == expenses[i][k]
                e1 == IF amount # <<>> /\ amount[1] # 0
                      THEN [e0 EXCEPT !.amount = amount[1]] ELSE e0
                e2 == IF category # <<>> /\ category[1] # <<>>
                      THEN [e1 EXCEPT !.category = category[1]] ELSE e1
                e3 == IF date # <<>> THEN [e2 EXCEPT !.date = strftime(date[1])] ELSE e2
                e4 == IF note # <<>> /\ note[1] # <<>>
                      THEN [e3 EXCEPT !.note = note[1]] ELSE e3
            IN /\ expenses' = [expenses EXCEPT ![i][k] = e4]
               /\ file' = _save(file, expenses'[i])
               /\ Returned(i, call)
               /\ UNCHANGED issued

edit_expense(i, id_str, amount, category, date, note) ==
    LET k == find_by_id(expenses[i], id_str)
        call == [NoCall EXCEPT !.name = "edit", !.id = id_str]
    IN IF k = 0
       THEN /\ Returned(i, [call EXCEPT !.ok = FALSE])
            /\ UNCHANGED <<expenses, file, issued>>
       ELSE LET e0 == expenses[i][k]
                e1 == IF amount # <<>> THEN [e0 EXCEPT !.amount = amount[1]] ELSE e0
                e2 == IF category # <<>> THEN [e1 EXCEPT !.category = category[1]] ELSE e1
                e3 == IF date # <<>> THEN [e2 EXCEPT !.date = strftime(date[1])] ELSE e2
                e4 == IF note # <<>> THEN [e3 EXCEPT !.note = note[1]] ELSE e3
            IN /\ expenses' = [expenses EXCEPT ![i][k] = e4]
               /\ file' = _save(file, expenses'[i])
               /\ Returned(i, call)
               /\ UNCHANGED issued

(* ---- import ---- *)
(* A JSON value: a number, a string, null, or a key that is absent. *)
JNum(n) == [t |-> "num", n |-> n, s |-> <<>>]
JStr(s) == [t |-> "str", n |-> 0, s |-> s]
JDate(text) == [t |-> "date", n |-> 0, s |-> <<text>>]
JNull == [t |-> "null", n |-> 0, s |-> <<>>]
JAbsent == [t |-> "absent", n |-> 0, s |-> <<>>]

Uncategorized == <<"u", "n", "c", "a", "t", "e", "g", "o", "r", "i", "z", "e", "d">>

EmptyText == [kind |-> "empty", day |-> 1, tod |-> 0]

(* float(e["amount"]) *)
float_ok(v) ==
    \/ v.t = "num"
    \/ v.t = "str" /\ v.s # <<>> /\ \A k \in 1..Len(v.s) : IsDigit(v.s[k])

float(v) == IF v.t = "num" THEN v.n ELSE int(v.s)

(* e.get(key, default) *)
get(v, default) == IF v.t = "absent" THEN default ELSE v

(* One pass of the loop body: the exception any step raises is swallowed   *)
(* and the entry skipped.                                                  *)
EntryRaises(e) ==
    LET category == get(e.category, JStr(Uncategorized))
        date == get(e.date, JDate(EmptyText))
        note == get(e.note, JStr(<<>>))
    IN \/ ~float_ok(e.amount)
       \/ date.t # "date"
       \/ ~parse_date_ok(date.s[1])
       \/ category.t # "str"
       \/ note.t # "str"

ImportEntry(exps, e, now) ==
    IF EntryRaises(e) THEN exps
    ELSE Append(exps, NewExpense(exps, float(e.amount),
                                 get(e.category, JStr(Uncategorized)).s,
                                 parse_date(get(e.date, JDate(EmptyText)).s[1], now),
                                 get(e.note, JStr(<<>>)).s))

(* "break" for "continue": the loop ends at the first entry that raises *)
RECURSIVE ImportAll_break(_, _, _)
ImportAll_break(exps, data, now) ==
    IF data = <<>> \/ EntryRaises(Head(data)) THEN exps
    ELSE LET grown == ImportEntry(exps, Head(data), now)
         IN ImportAll_break(grown, Tail(data), now)

RECURSIVE ImportAll(_, _, _)
ImportAll(exps, data, now) ==
    IF data = <<>> THEN exps
    ELSE LET grown == ImportEntry(exps, Head(data), now)
         IN ImportAll(grown, Tail(data), now)

import_from_json(i, src, now) ==
    LET call == [NoCall EXCEPT !.name = "import"]
        after == ImportAll(expenses[i], src.entries, now)
        added == SubSeq(after, Len(expenses[i]) + 1, Len(after))
    IN IF ~src.exists
       THEN /\ Returned(i, [call EXCEPT !.ok = FALSE, !.raised = "FileNotFoundError"])
            /\ UNCHANGED <<expenses, file, issued>>
       ELSE /\ \A k \in 1..Len(after) : int(after[k].id) <= MaxId
            /\ expenses' = [expenses EXCEPT ![i] = after]
            /\ file' = IF added = <<>> THEN file ELSE _save(file, after)
            /\ issued' = issued \cup {int(added[k].id) : k \in 1..Len(added)}
            /\ Returned(i, call)

(* ---- queries ---- *)
(* sorted(s, key=date, reverse=True): stable, so records of one date keep  *)
(* their relative order.                                                   *)
RECURSIVE sorted_by_date_desc(_)
sorted_by_date_desc(s) ==
    IF s = <<>> THEN <<>>
    ELSE LET t == sorted_by_date_desc(SubSeq(s, 1, Len(s) - 1))
             e == s[Len(s)]
             k == Cardinality({j \in 1..Len(t) : t[j].date >= e.date})
         IN SubSeq(t, 1, k) \o <<e>> \o SubSeq(t, k + 1, Len(t))

(* s[:n] *)
slice_to(s, n) ==
    IF n >= 0 THEN SubSeq(s, 1, IF n < Len(s) THEN n ELSE Len(s))
    ELSE SubSeq(s, 1, IF Len(s) + n > 0 THEN Len(s) + n ELSE 0)

list_expenses_of(exps, limit) ==
    LET sorted_list == sorted_by_date_desc(exps)
    IN IF limit # <<>> /\ limit[1] # 0 THEN slice_to(sorted_list, limit[1])
       ELSE sorted_list

filter_expenses_of(exps, category, start, end) ==
    LET keep(e) ==
            LET ed == strptime(e.date)
            IN /\ ~(category # <<>> /\ category[1] # <<>>
                    /\ lower(e.category) # lower(category[1]))
               /\ ~(start # <<>> /\ dt_lt(ed, start[1]))
               /\ ~(end # <<>> /\ dt_lt(end[1], ed))
    IN sorted_by_date_desc(SelectSeq(exps, keep))

RECURSIVE sum(_)
sum(s) == IF s = <<>> THEN 0 ELSE s[1].amount + sum(Tail(s))

total_of(exps, category, start, end) ==
    sum(filter_expenses_of(exps, category, start, end))

list_expenses(i, limit) ==
    /\ Returned(i, [NoCall EXCEPT !.name = "list",
                                  !.out = list_expenses_of(expenses[i], limit)])
    /\ UNCHANGED <<expenses, file, issued>>

filter_expenses(i, category, start, end) ==
    /\ Returned(i, [NoCall EXCEPT !.name = "filter",
                                  !.out = filter_expenses_of(expenses[i], category, start, end)])
    /\ UNCHANGED <<expenses, file, issued>>

total(i, category, start, end) ==
    /\ Returned(i, [NoCall EXCEPT !.name = "total",
                                  !.sum = total_of(expenses[i], category, start, end)])
    /\ UNCHANGED <<expenses, file, issued>>

(* ---- inputs ---- *)
CategoryInputs == {<<" ">>, <<"F", " ">>}
DateInputs == {[day |-> 1, tod |-> 0], [day |-> 2, tod |-> 1]}
NoteInputs == {<<>>, <<" ", "n">>}
IdInputs == {<<"1">>, <<"2">>, <<"0", "1">>}
EditAmounts == {<<>>, <<0>>}
EditCategories == {<<>>, << <<>> >>}
EditDates == {<<>>, <<[day |-> 2, tod |-> 1]>>}
EditNotes == {<<>>, << <<>> >>}
Nows == {[day |-> 2, tod |-> 1]}

WholeEntry ==
    [amount |-> JNum(1), category |-> JStr(<<"f", " ">>),
     date |-> JDate([kind |-> "dmy", day |-> 2, tod |-> 0]), note |-> JStr(<<"n">>)]

(* only the amount, as text: the other keys take their defaults *)
BareEntry ==
    [amount |-> JStr(<<"0">>), category |-> JAbsent, date |-> JAbsent, note |-> JAbsent]

BadAmountEntry ==
    [amount |-> JStr(<<"a">>), category |-> JStr(<<"f">>),
     date |-> JDate([kind |-> "ymd", day |-> 1, tod |-> 0]), note |-> JStr(<<>>)]

BadDateEntry ==
    [amount |-> JNum(1), category |-> JStr(<<"f">>),
     date |-> JDate([kind |-> "junk", day |-> 1, tod |-> 0]), note |-> JStr(<<>>)]

NullCategoryEntry ==
    [amount |-> JNum(1), category |-> JNull,
     date |-> JDate([kind |-> "iso", day |-> 1, tod |-> 1]), note |-> JStr(<<>>)]

(* the sequences over S of length at most n *)
SeqsUpTo(S, n) == UNION {[1..m -> S] : m \in 0..n}

FilesOf(S) ==
    {NoSrc} \cup {[exists |-> TRUE, entries |-> q] : q \in SeqsUpTo(S, MaxEntries)}

ImportFiles == FilesOf({WholeEntry, BareEntry, BadAmountEntry, NullCategoryEntry})

FewImportFiles ==
    {NoSrc} \cup {[exists |-> TRUE, entries |-> q] :
                     q \in {<<>>, <<BareEntry>>, <<BadDateEntry, WholeEntry>>}}

(* ---- one instance, starting from an empty store ---- *)
Init ==
    /\ expenses = [i \in Instances |-> <<>>]
    /\ file = NoFile
    /\ last = [i \in Instances |-> NoCall]
    /\ args = NoArgs
    /\ issued = {}
    /\ pc = [i \in Instances |-> IF i = 1 THEN "ready" ELSE "new"]

AddExpense ==
    /\ \E amount \in Amounts, date \in DateInputs :
          add_expense(1, amount, <<"F", " ">>, date, <<" ", "n">>)
    /\ args' = NoArgs
    /\ UNCHANGED pc

DeleteExpense ==
    /\ \E id_str \in IdInputs : delete_expense(1, id_str)
    /\ args' = NoArgs
    /\ UNCHANGED pc

EditExpense ==
    /\ \E id_str \in IdInputs, amount \in EditAmounts, category \in EditCategories,
          date \in EditDates, note \in EditNotes :
          edit_expense(1, id_str, amount, category, date, note)
    /\ args' = NoArgs
    /\ UNCHANGED pc

ImportFromJson ==
    /\ \E src \in FewImportFiles, now \in Nows : import_from_json(1, src, now)
    /\ args' = NoArgs
    /\ UNCHANGED pc

Next == AddExpense \/ DeleteExpense \/ EditExpense \/ ImportFromJson

Spec == Init /\ [][Next]_vars

(* ---- one instance, edits with their arguments logged ---- *)
EditExpenseLogged ==
    /\ \E id_str \in IdInputs, amount \in EditAmounts, category \in EditCategories,
          date \in EditDates, note \in EditNotes :
          /\ edit_expense(1, id_str, amount, category, date, note)
          /\ args' = [NoArgs EXCEPT !.amount = amount, !.category = category,
                                    !.date = date, !.note = note]
    /\ UNCHANGED pc

NextEdit == AddExpense \/ EditExpenseLogged

SpecEdit == Init /\ [][NextEdit]_vars

(* ---- one instance, imports with their file logged ---- *)
ImportFromJsonLogged ==
    /\ \E src \in ImportFiles, now \in Nows :
          /\ import_from_json(1, src, now)
          /\ args' = [NoArgs EXCEPT !.src = src]
    /\ UNCHANGED pc

NextImport == AddExpense \/ ImportFromJsonLogged

SpecImport == Init /\ [][NextImport]_vars

(* ---- one instance, the queries with their arguments logged ---- *)
Limits == {<<>>, <<-1>>, <<0>>, <<1>>, <<MaxId + 1>>}
FilterCategories == {<<>>, << <<>> >>, << <<"f">> >>}
Bounds == {<<>>} \cup {<<dt>> : dt \in DateTimes}

ListExpenses ==
    /\ \E limit \in Limits :
          /\ list_expenses(1, limit)
          /\ args' = [NoArgs EXCEPT !.limit = limit]
    /\ UNCHANGED pc

FilterExpenses ==
    /\ \E category \in FilterCategories, start \in Bounds, end \in Bounds :
          /\ category = <<>> \/ (start = <<>> /\ end = <<>>)
          /\ filter_expenses(1, category, start, end)
          /\ args' = [NoArgs EXCEPT !.category = category, !.start = start, !.end = end]
    /\ UNCHANGED pc

Total ==
    /\ \E start \in Bounds, end \in Bounds :
          /\ total(1, <<>>, start, end)
          /\ args' = [NoArgs EXCEPT !.start = start, !.end = end]
    /\ UNCHANGED pc

AddAnyExpense ==
    /\ \E amount \in Amounts, category \in CategoryInputs, date \in DateTimes,
          note \in NoteInputs : add_expense(1, amount, category, date, note)
    /\ args' = NoArgs
    /\ UNCHANGED pc

NextQuery == AddAnyExpense \/ DeleteExpense \/ ListExpenses \/ FilterExpenses \/ Total

SpecQuery == Init /\ [][NextQuery]_vars

(* ---- two instances over one backing file ---- *)
(* The file an earlier run left behind: none, or one saved record. *)
SeedFiles ==
    {NoFile} \cup
    {_save(NoFile, <<NewExpense(<<>>, amount, <<"F">>, [day |-> 1, tod |-> 0], <<>>)>>) :
        amount \in Amounts}

InitMulti ==
    /\ expenses = [i \in Instances |-> <<>>]
    /\ file \in SeedFiles
    /\ last = [i \in Instances |-> NoCall]
    /\ args = NoArgs
    /\ issued = {}
    /\ pc = [i \in Instances |-> "new"]

(* ExpenseTracker(path): the constructor loads the file *)
Construct ==
    \E i \in Instances :
        /\ pc[i] = "new"
        /\ expenses' = [expenses EXCEPT ![i] = _load(file)]
        /\ pc' = [pc EXCEPT ![i] = "ready"]
        /\ UNCHANGED <<file, last, args, issued>>

(* Each instance makes one mutating call. *)
Wrote(i) ==
    /\ pc[i] = "ready"
    /\ pc' = [pc EXCEPT ![i] = "done"]
    /\ args' = NoArgs

AddExpenseMulti ==
    \E i \in Instances, amount \in Amounts, category \in CategoryInputs,
       date \in DateTimes, note \in NoteInputs :
        Wrote(i) /\ add_expense(i, amount, category, date, note)

DeleteExpenseMulti ==
    \E i \in Instances, id_str \in IdInputs :
        Wrote(i) /\ delete_expense(i, id_str)

EditExpenseMulti ==
    \E i \in Instances, id_str \in IdInputs, amount \in EditAmounts,
       category \in EditCategories, date \in EditDates, note \in EditNotes :
        Wrote(i) /\ edit_expense(i, id_str, amount, category, date, note)

NextMulti == Construct \/ AddExpenseMulti \/ DeleteExpenseMulti \/ EditExpenseMulti

SpecMulti == InitMulti /\ [][NextMulti]_vars

(* ---- properties of the one-instance store ---- *)
Store == expenses[1]

Ids(exps) == {exps[k].id : k \in 1..Len(exps)}

Called(name) == last'[1].name = name /\ vars' # vars

(* C1: the id every add_expense assigns is, as an integer, strictly greater *)
(* than every id an earlier add_expense assigned, deleted records included; *)
(* no id is assigned twice.                                                 *)
C1_IdsStrictlyIncrease ==
    [][Called("add") /\ expenses' # expenses
          => \A n \in issued : int(last'[1].out[1].id) > n]_vars

(* C2: no two records of the store share an id, and the first record added *)
(* to an empty store gets the id "1".                                      *)
C2_UniqueIds ==
    /\ [](\A k, j \in 1..Len(Store) : k # j => Store[k].id # Store[j].id)
    /\ [][Store = <<>> /\ expenses'[1] # <<>> => expenses'[1][1].id = <<"1">>]_vars

C2_Witness ==
    /\ Len(Store) = 2
    /\ last[1].name = "import"
    /\ Store[1].id = <<"1">>

C5_NotFoundAndDelete ==
    [][/\ (Called("delete") \/ Called("edit")) /\ last'[1].id \notin Ids(Store)
            => /\ ~last'[1].ok
               /\ last'[1].raised = ""
               /\ expenses' = expenses
               /\ file' = file
       /\ Called("delete") /\ last'[1].id \in Ids(Store)
            => /\ last'[1].ok
               /\ \E k \in 1..Len(Store) :
                     /\ Store[k].id = last'[1].id
                     /\ expenses'[1] = RemoveAt(Store, k)]_vars

C5_Witness ==
    /\ last[1].name = "delete"
    /\ ~last[1].ok
    /\ last[1].id = <<"0", "1">>
    /\ Len(Store) = 1
    /\ Store[1].id = <<"1">>

(* C4: edit_expense on an existing id returns true, sets exactly the       *)
(* supplied fields of that record to the supplied values (the date to the  *)
(* calendar day of the supplied datetime), and leaves its id, its other    *)
(* fields, every other record and the number of records as they were.      *)
Edited(e, a) ==
    [id |-> e.id,
     amount |-> IF a.amount # <<>> THEN a.amount[1] ELSE e.amount,
     category |-> IF a.category # <<>> THEN a.category[1] ELSE e.category,
     date |-> IF a.date # <<>> THEN a.date[1].day ELSE e.date,
     note |-> IF a.note # <<>> THEN a.note[1] ELSE e.note]

C4_EditFrame ==
    [][Called("edit") /\ last'[1].id \in Ids(Store)
          => /\ last'[1].ok
             /\ Len(expenses'[1]) = Len(Store)
             /\ \A k \in 1..Len(Store) :
                   expenses'[1][k] = IF Store[k].id = last'[1].id
                                     THEN Edited(Store[k], args')
                                     ELSE Store[k]]_vars

C4_Witness ==
    /\ last[1].name = "edit"
    /\ last[1].ok
    /\ last[1].id = <<"2">>
    /\ args.amount = <<0>>
    /\ args.note = << <<>> >>
    /\ args.category = <<>>
    /\ args.date = <<>>
    /\ Len(Store) = 2
    /\ Store[2] = [id |-> <<"2">>, amount |-> 0, category |-> <<"F">>,
                   date |-> 1, note |-> <<>>]
    /\ Store[1].amount = 1

(* C6: filter_expenses(category=c) with no date bounds returns exactly the *)
(* records whose category equals c ignoring letter case, ordered by date   *)
(* descending, and does not modify the store.                              *)
DateDescending(out) == \A k \in 1..(Len(out) - 1) : out[k].date >= out[k + 1].date

Range(q) == {q[k] : k \in 1..Len(q)}

C6_FilterByCategory ==
    [][Called("filter") /\ args'.category # <<>>
                        /\ args'.start = <<>> /\ args'.end = <<>>
          => LET c == args'.category[1]
                 out == last'[1].out
                 matching == {e \in Range(Store) : lower(e.category) = lower(c)}
             IN /\ Range(out) = matching
                /\ Len(out) = Cardinality(matching)
                /\ DateDescending(out)
                /\ expenses' = expenses
                /\ file' = file]_vars

(* C7: total(None, start, end) is the sum of amount over exactly the        *)
(* records whose date lies in [start, end], both bounds inclusive: a record *)
(* dated on the calendar day of start or of end is counted.                 *)
C7_TotalInclusive ==
    [][Called("total")
          => LET inside(e) ==
                     /\ args'.start # <<>> => args'.start[1].day <= e.date
                     /\ args'.end # <<>> => e.date <= args'.end[1].day
             IN last'[1].sum = sum(SelectSeq(Store, inside))]_vars

(* C10: list_expenses() returns every record ordered by date descending    *)
(* without changing the store, and list_expenses(limit), for every limit   *)
(* given (0 included), the first limit records of that ordering, so        *)
(* min(limit, number of records) of them.                                  *)
C10_ListLimit ==
    [][Called("list") /\ (args'.limit = <<>> \/ args'.limit[1] >= 0)
          => LET out == last'[1].out
                 n == Len(Store)
                 all == list_expenses_of(Store, <<>>)
             IN /\ expenses' = expenses
                /\ file' = file
                /\ DateDescending(out)
                /\ args'.limit = <<>> => Range(out) = Range(Store) /\ Len(out) = n
                /\ args'.limit # <<>>
                      => LET m == IF args'.limit[1] < n THEN args'.limit[1] ELSE n
                         IN Len(out) = m /\ out = SubSeq(all, 1, m)]_vars

(* C8: import_from_json over a file of n entries adds one record for each  *)
(* of the k well-formed ones, in file order and with fresh ids, skips the  *)
(* others without raising or rolling back, and leaves every earlier record *)
(* unchanged.                                                              *)
DateParses(v) == v.t = "absent" \/ (v.t = "date" /\ parse_date_ok(v.s[1]))

TextOrAbsent(v) == v.t \in {"absent", "str"}

(* by the claim: a numeric amount and a parseable date *)
NumericAndDated(e) == float_ok(e.amount) /\ DateParses(e.date)

(* as amended: and a category and a note that are text where present *)
WellFormed(e) ==
    NumericAndDated(e) /\ TextOrAbsent(e.category) /\ TextOrAbsent(e.note)

ImportAdds(before, after, good) ==
    /\ Len(after) = Len(before) + Len(good)
    /\ SubSeq(after, 1, Len(before)) = before
    /\ \A j \in 1..Len(good) :
          /\ after[Len(before) + j].amount = float(good[j].amount)
          /\ after[Len(before) + j].id \notin Ids(SubSeq(after, 1, Len(before) + j - 1))

C8_ImportNumericAndDated ==
    [][Called("import") /\ args'.src.exists
          => /\ last'[1].raised = ""
             /\ ImportAdds(Store, expenses'[1],
                           SelectSeq(args'.src.entries, NumericAndDated))]_vars

C8_ImportWellFormed ==
    [][Called("import") /\ args'.src.exists
          => /\ last'[1].raised = ""
             /\ ImportAdds(Store, expenses'[1],
                           SelectSeq(args'.src.entries, WellFormed))]_vars

C8_Witness ==
    /\ last[1].name = "import"
    /\ Len(args.src.entries) = 2
    /\ WellFormed(args.src.entries[1])
    /\ NumericAndDated(args.src.entries[2])
    /\ ~WellFormed(args.src.entries[2])
    /\ Len(Store) = 2
    /\ Store[1].category = Uncategorized
    /\ Store[2].id = <<"2">>
    /\ Store[2].category = <<"f">>

====
